---- MODULE Spec2Model ----
(***************************************************************************)
(* PortOps-AI: Statement-of-Facts event extraction.                        *)
(*                                                                         *)
(*   app.py   Flask front end.  It uploads a document to the generative    *)
(*            model together with ENHANCED_SOF_EXTRACTION_PROMPT, whose    *)
(*            "Edge Case Handling Rules" are the timeline reconciliation   *)
(*            rules, adds analysis metrics to the answer and keeps the     *)
(*            answer in the session for download.                          *)
(*   app3.py  PDFEventExtractor: regex extraction with normalize_date /    *)
(*            normalize_time.                                              *)
(*                                                                         *)
(* The reconciliation rules are modelled as the deterministic algorithm    *)
(* the prompt states (sort by start_time, else end_time; infer a missing   *)
(* start from the previous event's end and a missing end from the next     *)
(* event's start; keep the event after a rest from starting before the     *)
(* rest ends; move what cannot be resolved to unresolved_events; skip CP   *)
(* entries), applied literally and in the order the prompt lists them.     *)
(* app.py itself applies no check to the answer it receives.               *)
(***************************************************************************)
EXTENDS Integers, Sequences, FiniteSets, TLC

\* ------------------------------ bounds ----------------------------------
\* Candidates per document.
MaxCands == 3
\* Instants are 0..MaxTime (an instant stands for a "YYYY-MM-DD HH:MM" value).
MaxTime == 3

\* A missing start_time / end_time (JSON null): a value outside 0..MaxTime.
None == 0 - 1

VARIABLES
    phase,        \* which component the run exercises, and how far it is
    cands,        \* reconciler: the document's candidate events, detection order
    sorted,       \* reconciler: non-CP anchored candidates after the sort
    filled,       \* reconciler: `sorted` after inference and the rest clamp
    resolved,     \* reconciler: "events" of the answer
    unresolved,   \* reconciler: "unresolved_events" of the answer
    extracted,    \* metrics: the extracted_data dictionary
    analysis,     \* metrics: the dictionary calculate_analysis_metrics returns
    dateTok,      \* normalizer: the date token at hand (date_match)
    timeTok,      \* normalizer: the time token at hand (time_match)
    normalized,   \* normalizer: what normalize_date / normalize_time returned
    event,        \* normalizer: the record extract_events appended
    session,      \* web: session['sof_data'], {} when the key is not set
    lastProcessed,\* web: the document of the latest extraction, the model it
                  \* was given to and the outcome
    response,     \* web: the response to the latest request
    pc,           \* uploads: where each concurrent POST / request stands
    fname,        \* uploads: secure_filename(file.filename) of each request
    disk,         \* uploads: the files of UPLOADS_DIR, by name
    uploaded_file,\* uploads: whether each request's uploaded_file is set
    remote,       \* uploads: the file each request put in the API storage
    deleteCalls,  \* uploads: genai.delete_file calls each request issued
    result,       \* uploads: what extract_sof_data_from_file gave each request
    text,         \* extract_events: the lines of the input text
    eventList     \* extract_events: the list returned, or the exception

reconVars == <<cands, sorted, filled, resolved, unresolved>>
metricVars == <<extracted, analysis>>
normVars == <<dateTok, timeTok, normalized, event>>
webVars == <<session, lastProcessed, response>>
procVars == <<pc, fname, disk, uploaded_file, remote, deleteCalls, result>>
textVars == <<text, eventList>>
vars == <<phase, reconVars, metricVars, normVars, webVars, procVars, textVars>>

\* The values of a component's variables in a run that does not exercise it.
ReconIdle ==
    cands = <<>> /\ sorted = <<>> /\ filled = <<>> /\ resolved = <<>> /\ unresolved = <<>>
MetricIdle == extracted = [keys |-> {}] /\ analysis = [set |-> FALSE]
NormIdle ==
    /\ dateTok = [form |-> "none"]
    /\ timeTok = [form |-> "none"]
    /\ normalized = [form |-> "none"]
    /\ event = [set |-> FALSE]
WebIdle ==
    session = {} /\ lastProcessed = [set |-> FALSE] /\ response = [kind |-> "none"]
ProcIdle ==
    /\ pc = <<>> /\ fname = <<>> /\ disk = <<>> /\ uploaded_file = <<>>
    /\ remote = <<>> /\ deleteCalls = <<>> /\ result = <<>>
TextIdle == text = <<>> /\ eventList = [set |-> FALSE]

\* ------------------------- timeline reconciliation ----------------------
Times == 0..MaxTime
OptTime == Times \cup {None}
\* kind: "rest" for a rest/break period, "cp" for an entry marked
\* "as per charter party (CP)", "event" for any other entry.
Kinds == {"event", "rest", "cp"}
Candidate == [kind : Kinds, start : OptTime, end : OptTime]

\* Rule 7: "Skip events explicitly marked as per charter party (CP)".
\* The kept candidates carry their detection index as id.
RECURSIVE ExcludeCP(_, _)
ExcludeCP(cs, i) ==
    IF i > Len(cs) THEN <<>>
    ELSE IF cs[i].kind = "cp" THEN ExcludeCP(cs, i + 1)
    ELSE <<[id |-> i, kind |-> cs[i].kind, start |-> cs[i].start, end |-> cs[i].end]>>
             \o ExcludeCP(cs, i + 1)

\* Rule 2: the sort key is start_time, or end_time when start_time is missing.
Anchor(c) == IF c.start # None THEN c.start ELSE c.end

RECURSIVE Select(_, _, _)
Select(s, i, keep) ==
    IF i > Len(s) THEN <<>>
    ELSE IF (Anchor(s[i]) # None) = keep THEN <<s[i]>> \o Select(s, i + 1, keep)
    ELSE Select(s, i + 1, keep)

\* Insert c after every element whose key is <= its own (stable).
RECURSIVE InsertByAnchor(_, _)
InsertByAnchor(s, c) ==
    IF s = <<>> THEN <<c>>
    ELSE IF Anchor(c) < Anchor(Head(s)) THEN <<c>> \o s
    ELSE <<Head(s)>> \o InsertByAnchor(Tail(s), c)

\* Rule 2: "First, sort all events by start_time (if missing, then by end_time)".
RECURSIVE SortByAnchor(_)
SortByAnchor(s) ==
    IF s = <<>> THEN <<>>
    ELSE InsertByAnchor(SortByAnchor(SubSeq(s, 1, Len(s) - 1)), s[Len(s)])

\* FillStarts with a default: a missing start with no previous end becomes 0.
FillStartsDefaulting(s) ==
    [p \in 1..Len(s) |->
        IF s[p].start = None
        THEN [s[p] EXCEPT !.start = IF p > 1 /\ s[p - 1].end # None
                                     THEN s[p - 1].end ELSE 0]
        ELSE s[p]]

\* Rule 2: "If start_time is missing, infer it from the previous event's
\* end_time after sorting."
FillStarts(s) ==
    [p \in 1..Len(s) |->
        IF s[p].start = None /\ p > 1 /\ s[p - 1].end # None
        THEN [s[p] EXCEPT !.start = s[p - 1].end]
        ELSE s[p]]

\* FillEnds reading the neighbour's other bound: the next event's end_time.
FillEndsFromNextEnd(s) ==
    [p \in 1..Len(s) |->
        IF s[p].end = None /\ p < Len(s) /\ s[p + 1].end # None
        THEN [s[p] EXCEPT !.end = s[p + 1].end]
        ELSE s[p]]

\* Rule 2: "If end_time is missing, infer it from the next event's start_time."
FillEnds(s) ==
    [p \in 1..Len(s) |->
        IF s[p].end = None /\ p < Len(s) /\ s[p + 1].start # None
        THEN [s[p] EXCEPT !.end = s[p + 1].start]
        ELSE s[p]]

\* Rule 3: "Ensure the next event does not start before the rest ends."
ClampRest(s) ==
    [p \in 1..Len(s) |->
        IF /\ p > 1
           /\ s[p - 1].kind = "rest"
           /\ s[p - 1].end # None
           /\ s[p].start # None
           /\ s[p].start < s[p - 1].end
        THEN [s[p] EXCEPT !.start = s[p - 1].end]
        ELSE s[p]]

\* Rule 7: "Do not output any event where start_time == end_time"; rules 5
\* and 7: what cannot be resolved is moved to unresolved_events.
IsResolved(c) == c.start # None /\ c.end # None /\ c.start # c.end

\* The reason recorded with an unresolved entry.
Reason(c) ==
    IF c.start = None /\ c.end = None THEN "no_context"
    ELSE IF c.start = None THEN "missing_start"
    ELSE IF c.end = None THEN "missing_end"
    ELSE "zero_duration"

RECURSIVE ResolvedOf(_, _)
ResolvedOf(s, i) ==
    IF i > Len(s) THEN <<>>
    ELSE IF IsResolved(s[i]) THEN <<s[i]>> \o ResolvedOf(s, i + 1)
    ELSE ResolvedOf(s, i + 1)

\* UnresolvedOf reading "do not output" as "drop": a zero-duration entry is
\* in neither list.
RECURSIVE UnresolvedOfDroppingZero(_, _)
UnresolvedOfDroppingZero(s, i) ==
    IF i > Len(s) THEN <<>>
    ELSE IF IsResolved(s[i]) \/ Reason(s[i]) = "zero_duration"
         THEN UnresolvedOfDroppingZero(s, i + 1)
    ELSE <<[id |-> s[i].id, kind |-> s[i].kind, reason |-> Reason(s[i])]>>
             \o UnresolvedOfDroppingZero(s, i + 1)

RECURSIVE UnresolvedOf(_, _)
UnresolvedOf(s, i) ==
    IF i > Len(s) THEN <<>>
    ELSE IF IsResolved(s[i]) THEN UnresolvedOf(s, i + 1)
    ELSE <<[id |-> s[i].id, kind |-> s[i].kind, reason |-> Reason(s[i])]>>
             \o UnresolvedOf(s, i + 1)

\* Documents: every sequence of n candidates.
CandLists(n) == [1..n -> Candidate]

InitReconcile ==
    /\ phase = "candidates"
    /\ \E n \in 0..MaxCands : cands \in CandLists(n)
    /\ sorted = <<>>
    /\ filled = <<>>
    /\ resolved = <<>>
    /\ unresolved = <<>>
    /\ MetricIdle /\ NormIdle /\ WebIdle /\ ProcIdle /\ TextIdle

\* One reconciliation of one document's candidates.
Reconcile ==
    /\ phase = "candidates"
    /\ LET kept == ExcludeCP(cands, 1)
           srt  == SortByAnchor(Select(kept, 1, TRUE))
           fin  == ClampRest(FillEnds(FillStarts(srt)))
       IN  /\ sorted' = srt
           /\ filled' = fin
           /\ resolved' = ResolvedOf(fin, 1)
           /\ unresolved' = UnresolvedOf(fin, 1) \o UnresolvedOf(Select(kept, 1, FALSE), 1)
    /\ phase' = "reconciled"
    /\ UNCHANGED <<cands, metricVars, normVars, webVars, procVars, textVars>>

NextReconcile == Reconcile

SpecReconcile == InitReconcile /\ [][NextReconcile]_vars

\* --------------------- claims on the reconciliation ---------------------
Reconciled == phase = "reconciled"
ResolvedIds == {resolved[i].id : i \in 1..Len(resolved)}
UnresolvedIds == {unresolved[i].id : i \in 1..Len(unresolved)}
CpIds == {i \in 1..Len(cands) : cands[i].kind = "cp"}
HasUnresolved(id, reason) ==
    \E i \in 1..Len(unresolved) : unresolved[i].id = id /\ unresolved[i].reason = reason

\* C1: every event of the resolved timeline has start_time strictly before
\* end_time (an event whose start equals or exceeds its end is never emitted).
C1_StartBeforeEnd ==
    Reconciled => \A i \in 1..Len(resolved) : resolved[i].start < resolved[i].end

\* C2: the resolved timeline is non-decreasing in start_time, and candidates
\* with equal anchor keep their detection order.
C2_NonDecreasingStart ==
    Reconciled =>
        /\ \A i \in 1..(Len(resolved) - 1) : resolved[i].start <= resolved[i + 1].start
        /\ \A i \in 1..(Len(sorted) - 1) :
              Anchor(sorted[i]) = Anchor(sorted[i + 1]) => sorted[i].id < sorted[i + 1].id

\* The timestamp tokens of candidate i, and the boundaries of the other
\* candidates of the same document.
OwnTokens(i) == {cands[i].start, cands[i].end} \ {None}
OtherBoundaries(i) ==
    UNION {{cands[j].start, cands[j].end} : j \in (1..Len(cands)) \ {i}} \ {None}

\* C3: no fabrication: each start_time and end_time of a resolved event is a
\* timestamp token of that candidate or a boundary of another candidate of
\* the same document, and nothing else.
C3_NoFabrication ==
    Reconciled =>
        \A i \in 1..Len(resolved) :
            /\ resolved[i].start \in OwnTokens(resolved[i].id) \cup OtherBoundaries(resolved[i].id)
            /\ resolved[i].end \in OwnTokens(resolved[i].id) \cup OtherBoundaries(resolved[i].id)

\* C3's case: a resolved event whose start was missing in the document and
\* one whose end was missing, both taken from a neighbour.
C3_Witness ==
    /\ Reconciled
    /\ \E i \in 1..Len(resolved) : cands[resolved[i].id].start = None
    /\ \E i \in 1..Len(resolved) : cands[resolved[i].id].end = None

\* C4: rest floor: in the resolved timeline, the event that immediately
\* follows a rest period does not start before the rest period ends.
C4_RestFloor ==
    Reconciled =>
        \A i \in 1..(Len(resolved) - 1) :
            resolved[i].kind = "rest" => resolved[i + 1].start >= resolved[i].end

MaxEvents == 7

\* extracted_data: the keys present and, for each present key, its list.
MetricKeys == {"events", "unresolved_events"}
ListOf(n) == [i \in 1..n |-> i]
ExtractedData ==
    {[keys |-> ks, events |-> ListOf(ne), unresolved_events |-> ListOf(nu)] :
        ks \in SUBSET MetricKeys, ne \in 0..MaxEvents, nu \in 0..MaxEvents}

\* extracted_data.get(key, []).
Get(d, key) == IF key \in d.keys THEN d[key] ELSE <<>>

\* Round2 cutting the digits off instead of rounding.
Round2Truncating(num, den) == (num * 100) \div den

\* round(num / den, 2), as a count of hundredths.  Python rounds the exact
\* value of the float to the nearest hundredth, an exact tie to the even one.
Round2(num, den) ==
    LET q == (num * 100) \div den
        r == (num * 100) % den
    IN  IF 2 * r < den THEN q
        ELSE IF 2 * r > den THEN q + 1
        ELSE IF q % 2 = 0 THEN q ELSE q + 1

\* calculate_analysis_metrics, without parsing_timestamp (the clock);
\* success_rate is held in hundredths of a percent.
calculate_analysis_metrics(d) ==
    LET events == Get(d, "events")
        unresolved_events == Get(d, "unresolved_events")
        total_events_found == Len(events) + Len(unresolved_events)
        successfully_parsed == Len(events)
        skipped_events == Len(unresolved_events)
        success_rate == IF total_events_found > 0
                        THEN Round2(successfully_parsed * 100, total_events_found)
                        ELSE Round2(0, 1)
    IN  [set |-> TRUE,
         total_events_found |-> total_events_found,
         successfully_parsed |-> successfully_parsed,
         skipped_events |-> skipped_events,
         success_rate |-> success_rate]

InitMetrics ==
    /\ phase = "extracted"
    /\ extracted \in {d \in ExtractedData :
                        /\ "events" \notin d.keys => d.events = <<>>
                        /\ "unresolved_events" \notin d.keys => d.unresolved_events = <<>>}
    /\ analysis = [set |-> FALSE]
    /\ ReconIdle /\ NormIdle /\ WebIdle /\ ProcIdle /\ TextIdle

\* extracted_data["analysis"] = calculate_analysis_metrics(extracted_data)
CalculateMetrics ==
    /\ phase = "extracted"
    /\ analysis' = calculate_analysis_metrics(extracted)
    /\ phase' = "analysed"
    /\ UNCHANGED <<extracted, reconVars, normVars, webVars, procVars, textVars>>

NextMetrics == CalculateMetrics

SpecMetrics == InitMetrics /\ [][NextMetrics]_vars

\* The counts every reading of the claim shares.
MetricCounts ==
    /\ analysis.successfully_parsed = Len(Get(extracted, "events"))
    /\ analysis.skipped_events = Len(Get(extracted, "unresolved_events"))
    /\ analysis.total_events_found = analysis.successfully_parsed + analysis.skipped_events
    /\ analysis.total_events_found = 0 => analysis.success_rate = 0
    /\ analysis.success_rate >= 0
    /\ analysis.success_rate <= 100 * 100

\* C7 as stated: the counts, and success_rate equal to
\* successfully_parsed / total_events_found * 100 (0 for no events, within 0..100).
C7_ExactRate ==
    phase = "analysed" =>
        /\ MetricCounts
        /\ analysis.total_events_found > 0 =>
              analysis.success_rate * analysis.total_events_found
                  = analysis.successfully_parsed * 100 * 100

\* C7 amended: the counts, and success_rate equal to
\* successfully_parsed / total_events_found * 100 rounded to two decimals
\* (0 for no events, within 0..100).
C7_RoundedRate ==
    phase = "analysed" =>
        /\ MetricCounts
        /\ analysis.total_events_found > 0 =>
              LET exact == analysis.successfully_parsed * 100 * 100
                  got == analysis.success_rate * analysis.total_events_found
              IN  /\ 2 * (got - exact) <= analysis.total_events_found
                  /\ 2 * (exact - got) <= analysis.total_events_found

\* C7's case: a rate that two decimals cannot hold (2 of 3 events parsed
\* gives 66.67), with both lists present.
C7_Witness ==
    /\ phase = "analysed"
    /\ extracted.keys = MetricKeys
    /\ analysis.successfully_parsed = 2
    /\ analysis.total_events_found = 3
    /\ analysis.success_rate = 6667

\* --------------------- timestamp normalizer (app3.py) -------------------
\* The largest number two digits write (\d{2}, \d{1,2} of the patterns).
MaxTwoDigit == 99
TwoDigit == 0..MaxTwoDigit
\* Years and words the tokens are built from ("Foo" is no month).
Years == {2019, 2020}
Words == {"October", "Oct", "May", "Foo"}

\* A date token is a text of one of these shapes:
\*   ymd      "YYYY-AA-BB"        dmy    "AA-BB-YYYY"
\*   ordinal  "AAth Word YYYY"    plain  "AA Word YYYY"
\*   wordy    "Word AA, YYYY", or "Word AA YYYY" when comma is FALSE
DateToken ==
    [form : {"ymd", "dmy"}, y : Years, a : TwoDigit, b : TwoDigit]
    \cup [form : {"ordinal", "plain"}, y : Years, a : TwoDigit, word : Words]
    \cup [form : {"wordy"}, y : Years, a : TwoDigit, word : Words, comma : BOOLEAN]

\* A time token is "AA:BB" (colon), "AA.BB" (decimal), "AA" (digits) or any
\* text without a number in it (other), with or without a trailing "HRS".
TimeToken ==
    [form : {"colon", "decimal"}, a : TwoDigit, b : TwoDigit, hrs : BOOLEAN]
    \cup [form : {"digits"}, a : TwoDigit, hrs : BOOLEAN]
    \cup [form : {"other"}, hrs : BOOLEAN]

NoToken == [form |-> "none"]

\* The calendar of datetime.strptime.
IsLeap(y) == (y % 4 = 0 /\ y % 100 # 0) \/ y % 400 = 0
DaysIn(y, m) ==
    IF m = 2 THEN (IF IsLeap(y) THEN 29 ELSE 28)
    ELSE IF m \in {4, 6, 9, 11} THEN 30 ELSE 31
ValidDate(y, m, d) == m \in 1..12 /\ d \in 1..DaysIn(y, m)
\* %B (full month name) and %b (abbreviated month name); 0 for no month.
FullMonth(w) == IF w = "October" THEN 10 ELSE IF w = "May" THEN 5 ELSE 0
AbbrMonth(w) == IF w = "Oct" THEN 10 ELSE IF w = "May" THEN 5 ELSE 0

Iso(y, m, d) == [form |-> "iso", y |-> y, m |-> m, d |-> d]
Failed == [form |-> "failed"]

\* datetime.strptime(tok, fmt).strftime('%Y-%m-%d'), Failed when it raises.
Strptime(tok, fmt) ==
    IF fmt = "%Y-%m-%d" THEN
        IF tok.form = "ymd" /\ ValidDate(tok.y, tok.a, tok.b)
        THEN Iso(tok.y, tok.a, tok.b) ELSE Failed
    ELSE IF fmt = "%d-%m-%Y" THEN
        IF tok.form = "dmy" /\ ValidDate(tok.y, tok.b, tok.a)
        THEN Iso(tok.y, tok.b, tok.a) ELSE Failed
    ELSE IF fmt = "%m-%d-%Y" THEN
        IF tok.form = "dmy" /\ ValidDate(tok.y, tok.a, tok.b)
        THEN Iso(tok.y, tok.a, tok.b) ELSE Failed
    ELSE IF fmt = "%d %B %Y" THEN
        IF tok.form = "plain" /\ ValidDate(tok.y, FullMonth(tok.word), tok.a)
        THEN Iso(tok.y, FullMonth(tok.word), tok.a) ELSE Failed
    ELSE IF fmt = "%B %d, %Y" THEN
        IF tok.form = "wordy" /\ tok.comma /\ ValidDate(tok.y, FullMonth(tok.word), tok.a)
        THEN Iso(tok.y, FullMonth(tok.word), tok.a) ELSE Failed
    ELSE IF fmt = "%d %b %Y" THEN
        IF tok.form = "plain" /\ ValidDate(tok.y, AbbrMonth(tok.word), tok.a)
        THEN Iso(tok.y, AbbrMonth(tok.word), tok.a) ELSE Failed
    ELSE \* "%b %d, %Y"
        IF tok.form = "wordy" /\ tok.comma /\ ValidDate(tok.y, AbbrMonth(tok.word), tok.a)
        THEN Iso(tok.y, AbbrMonth(tok.word), tok.a) ELSE Failed

formats ==
    <<"%Y-%m-%d", "%d-%m-%Y", "%m-%d-%Y", "%d %B %Y", "%B %d, %Y", "%d %b %Y", "%b %d, %Y">>

\* The loop over formats: the first one that parses, from format i on.
RECURSIVE TryFormats(_, _)
TryFormats(tok, i) ==
    IF i > Len(formats) THEN Failed
    ELSE IF Strptime(tok, formats[i]) # Failed THEN Strptime(tok, formats[i])
    ELSE TryFormats(tok, i + 1)

\* re.sub(r'(\d+)(st|nd|rd|th)', r'\1', date_str)
StripOrdinal(tok) ==
    IF tok.form = "ordinal"
    THEN [form |-> "plain", y |-> tok.y, a |-> tok.a, word |-> tok.word]
    ELSE tok

\* What the normalizers return for a text they could not parse: the text.
Raw(tok) == [form |-> "raw", tok |-> tok]

\* normalize_date
normalize_date(tok) ==
    IF TryFormats(tok, 1) # Failed THEN TryFormats(tok, 1)
    ELSE IF TryFormats(StripOrdinal(tok), 1) # Failed THEN TryFormats(StripOrdinal(tok), 1)
    ELSE Raw(StripOrdinal(tok))

\* f"{n:02d}" for a number of at most two digits.
DigitChar == <<"0", "1", "2", "3", "4", "5", "6", "7", "8", "9">>
Pad2(n) == <<DigitChar[(n \div 10) + 1], DigitChar[(n % 10) + 1]>>
HHMM(hours, minutes) == [form |-> "hhmm", text |-> Pad2(hours) \o <<":">> \o Pad2(minutes)]

\* normalize_time taking the digits after the point as minutes.
normalize_time_literal(tok) ==
    LET time_str == [tok EXCEPT !.hrs = FALSE]
    IN  IF time_str.form = "decimal" THEN HHMM(time_str.a, time_str.b)
        ELSE IF time_str.form = "colon" THEN HHMM(time_str.a, time_str.b)
        ELSE Raw(time_str)

\* normalize_time.  int(float('0.' + minutes) * 60) is the whole part of
\* BB * 60 / 100: for two digits BB the float product is never below it.
normalize_time(tok) ==
    LET time_str == [tok EXCEPT !.hrs = FALSE]
    IN  IF time_str.form = "decimal"
        THEN HHMM(time_str.a, (time_str.b * 60) \div 100)
        ELSE IF time_str.form = "colon" THEN HHMM(time_str.a, time_str.b)
        ELSE Raw(time_str)

\* The tokens the date_patterns / time_patterns of extract_events can match.
MatchedDateToken ==
    {t \in DateToken : t.form \in {"ymd", "dmy", "wordy"} \/ (t.form = "ordinal" /\ t.a >= 1)}
MatchedTimeToken ==
    {t \in TimeToken : \/ t.form \in {"colon", "decimal"} /\ ~t.hrs
                       \/ t.form = "digits" /\ t.hrs}

NA == [form |-> "N/A"]

InitNormalize ==
    /\ phase = "token"
    /\ \/ dateTok \in DateToken /\ timeTok = NoToken
       \/ dateTok = NoToken /\ timeTok \in TimeToken
    /\ normalized = NoToken
    /\ event = [set |-> FALSE]
    /\ ReconIdle /\ MetricIdle /\ WebIdle /\ ProcIdle /\ TextIdle

\* A call of normalize_date.
NormalizeDate ==
    /\ phase = "token"
    /\ dateTok # NoToken
    /\ normalized' = normalize_date(dateTok)
    /\ phase' = "normalized"
    /\ UNCHANGED <<dateTok, timeTok, event, reconVars, metricVars, webVars, procVars, textVars>>

\* A call of normalize_time.
NormalizeTime ==
    /\ phase = "token"
    /\ timeTok # NoToken
    /\ normalized' = normalize_time(timeTok)
    /\ phase' = "normalized"
    /\ UNCHANGED <<dateTok, timeTok, event, reconVars, metricVars, webVars, procVars, textVars>>

\* extract_events, "Clean and normalize" and events.append: the record built
\* from the date_match and time_match found for a line.
ExtractEventFields ==
    /\ phase = "token"
    /\ dateTok \in MatchedDateToken \cup {NoToken}
    /\ timeTok \in MatchedTimeToken \cup {NoToken}
    /\ event' = [set |-> TRUE,
                 Date |-> IF dateTok # NoToken THEN normalize_date(dateTok) ELSE NA,
                 Time |-> IF timeTok # NoToken THEN normalize_time(timeTok) ELSE NA]
    /\ phase' = "emitted"
    /\ UNCHANGED <<dateTok, timeTok, normalized, reconVars, metricVars, webVars, procVars, textVars>>

NextNormalize == NormalizeDate \/ NormalizeTime \/ ExtractEventFields

SpecNormalize == InitNormalize /\ [][NextNormalize]_vars

\* The declared formats, read generously: any calendar date written
\* YYYY-MM-DD or DD-MM-YYYY, with an ordinal or plain day before a month
\* name, or as Month Day[,] Year; any HH:MM, H.MM or HH HRS.
MatchesDeclaredDate(t) ==
    \/ t.form = "ymd" /\ ValidDate(t.y, t.a, t.b)
    \/ t.form = "dmy" /\ ValidDate(t.y, t.b, t.a)
    \/ /\ t.form \in {"ordinal", "plain", "wordy"}
       /\ \/ ValidDate(t.y, FullMonth(t.word), t.a)
          \/ ValidDate(t.y, AbbrMonth(t.word), t.a)
MatchesDeclaredTime(t) ==
    t.form \in {"colon", "decimal"} \/ (t.form = "digits" /\ t.hrs)

\* C8: a date or time token that matches none of the declared formats is
\* reported unresolved by normalize_date / normalize_time and is not the
\* Date or Time of the emitted event.
C8_NeverGuesses ==
    /\ phase = "normalized" =>
          /\ (dateTok # NoToken /\ ~MatchesDeclaredDate(dateTok)) => normalized.form = "unresolved"
          /\ (timeTok # NoToken /\ ~MatchesDeclaredTime(timeTok)) => normalized.form = "unresolved"
    /\ phase = "emitted" =>
          /\ (dateTok # NoToken /\ ~MatchesDeclaredDate(dateTok)) => event.Date = NA
          /\ (timeTok # NoToken /\ ~MatchesDeclaredTime(timeTok)) => event.Time = NA

\* C9: a decimal-hour token H.FF becomes HH:MM with HH the hour on two
\* digits and MM the whole part of FF * 60 / 100, within 0..59 (5.30 gives
\* 05:18).
C9_DecimalHours ==
    (phase = "normalized" /\ timeTok # NoToken /\ timeTok.form = "decimal") =>
        \E mm \in 0..59 :
            /\ mm * 100 <= timeTok.b * 60
            /\ timeTok.b * 60 < (mm + 1) * 100
            /\ normalized.form = "hhmm"
            /\ normalized.text = Pad2(timeTok.a) \o <<":">> \o Pad2(mm)
            /\ (timeTok.a = 5 /\ timeTok.b = 30) => normalized.text = <<"0", "5", ":", "1", "8">>

\* C9's case: the token 5.30 normalized to 05:18.
C9_Witness ==
    /\ phase = "normalized"
    /\ timeTok = [form |-> "decimal", a |-> 5, b |-> 30, hrs |-> FALSE]
    /\ normalized = [form |-> "hhmm", text |-> <<"0", "5", ":", "1", "8">>]

\* ----------------------- upload and download (app.py) -------------------
\* Documents processed in one session; a document is named by its rank
\* among them.
MaxDocs == 4
Docs == 1..MaxDocs

ALLOWED_EXTENSIONS == {"pdf", "docx"}

\* file.filename: '' or a name with or without a dot and an extension.
Filenames ==
    {[dot |-> FALSE, ext |-> ""]} \cup [dot : {TRUE}, ext : {"pdf", "PDF", "docx", "txt"}]
EmptyFilename == [dot |-> FALSE, ext |-> ""]
Lower(ext) == IF ext = "PDF" THEN "pdf" ELSE ext

\* allowed_file
allowed_file(filename) == filename.dot /\ Lower(filename.ext) \in ALLOWED_EXTENSIONS

\* A POST / request: whether it has a 'sof_document' part, the part's file
\* name, and the pdf_type field ("" when absent).
Requests ==
    [hasFile : {TRUE}, filename : Filenames, pdf_type : {"", "text", "photo"}]
    \cup {[hasFile |-> FALSE]}

\* model_to_use
model_to_use(pdf_type) == IF pdf_type = "text" THEN "gemini-1.5-flash" ELSE "gemini-2.5-pro"

\* The rank of the document a request that reaches the extraction carries.
NextDoc == IF lastProcessed.set THEN lastProcessed.doc + 1 ELSE 1

\* What extract_sof_data_from_file returns for a document: its data, or a
\* dictionary with "error" (a failed call, an answer that is no JSON).
Outcomes == {"data", "error"}

InitWeb ==
    /\ phase = "serving"
    /\ session = {}
    /\ lastProcessed = [set |-> FALSE]
    /\ response = [kind |-> "none"]
    /\ ReconIdle /\ MetricIdle /\ NormIdle /\ ProcIdle /\ TextIdle

\* upload_and_process_sof
UploadAndProcessSof(req, outcome) ==
    /\ phase = "serving"
    /\ IF ~req.hasFile THEN
           /\ response' = [kind |-> "redirect"]
           /\ UNCHANGED <<session, lastProcessed>>
       ELSE IF req.filename = EmptyFilename THEN
           /\ response' = [kind |-> "index", error |-> "No file selected"]
           /\ UNCHANGED <<session, lastProcessed>>
       ELSE IF req.pdf_type = "" THEN
           /\ response' = [kind |-> "index", error |-> "Please select a processing type"]
           /\ UNCHANGED <<session, lastProcessed>>
       ELSE IF allowed_file(req.filename) THEN
           /\ NextDoc \in Docs
           /\ IF outcome = "error" THEN
                  /\ response' = [kind |-> "result", error |-> "Failed to extract"]
                  /\ lastProcessed' = [set |-> TRUE, doc |-> NextDoc, ok |-> FALSE,
                                       model |-> model_to_use(req.pdf_type)]
                  /\ UNCHANGED session
              ELSE
                  /\ session' = {NextDoc}
                  /\ response' = [kind |-> "result", doc |-> NextDoc]
                  /\ lastProcessed' = [set |-> TRUE, doc |-> NextDoc, ok |-> TRUE,
                                       model |-> model_to_use(req.pdf_type)]
       ELSE
           /\ response' = [kind |-> "index", error |-> "Invalid file type"]
           /\ UNCHANGED <<session, lastProcessed>>
    /\ UNCHANGED <<phase, reconVars, metricVars, normVars, procVars, textVars>>

\* download_file
DownloadFile(filetype) ==
    /\ phase = "serving"
    /\ IF session = {} THEN response' = [kind |-> "redirect"]
       ELSE IF filetype = "json"
            THEN response' = [kind |-> "json", doc |-> CHOOSE d \in session : TRUE]
       ELSE IF filetype = "csv"
            THEN response' = [kind |-> "csv", doc |-> CHOOSE d \in session : TRUE]
       ELSE response' = [kind |-> "redirect"]
    /\ UNCHANGED <<phase, session, lastProcessed, reconVars, metricVars, normVars, procVars, textVars>>

NextWeb ==
    \/ \E req \in Requests, outcome \in Outcomes : UploadAndProcessSof(req, outcome)
    \/ \E filetype \in {"json", "csv", "xlsx"} : DownloadFile(filetype)

SpecWeb == InitWeb /\ [][NextWeb]_vars

\* C10: a download (JSON or CSV) serves the result of the most recently
\* processed document only; after an upload whose processing failed it does
\* not serve an earlier document's timeline.
C10_LatestDocumentOnly ==
    response.kind \in {"json", "csv"} =>
        /\ lastProcessed.set
        /\ lastProcessed.ok
        /\ response.doc = lastProcessed.doc

\* ------------------- concurrent uploads (app.py) --------------------------
\* POST / requests served at the same time, each by its own thread.  Request
\* p carries document p.
MaxProcs == 2
Procs == 1..MaxProcs

\* secure_filename(file.filename) of a request that passed allowed_file.
UploadNames == {"sof.pdf", "report.pdf"}

NoFile == [exists |-> FALSE]
FileOf(d) == [exists |-> TRUE, doc |-> d]

\* What a call to the generative-AI service does: it answers (JSON or not)
\* or it raises.
UploadOutcomes == {"ok", "raises"}
GenerateOutcomes == {"json", "not json", "raises"}
DeleteOutcomes == {"ok", "raises"}

ErrorResult == [kind |-> "error"]

InitUploads ==
    /\ phase = "uploads"
    /\ pc = [p \in Procs |-> "request"]
    /\ fname \in [Procs -> UploadNames]
    /\ disk = [f \in UploadNames |-> NoFile]
    /\ uploaded_file = [p \in Procs |-> FALSE]
    /\ remote = [p \in Procs |-> NoFile]
    /\ deleteCalls = [p \in Procs |-> 0]
    /\ result = [p \in Procs |-> [kind |-> "none"]]
    /\ ReconIdle /\ MetricIdle /\ NormIdle /\ WebIdle /\ TextIdle

\* upload_and_process_sof, up to file.save(filepath) with
\* filepath = UPLOADS_DIR / filename.
SaveFile(p) ==
    /\ phase = "uploads"
    /\ pc[p] = "request"
    /\ disk' = [disk EXCEPT ![fname[p]] = FileOf(p)]
    /\ pc' = [pc EXCEPT ![p] = "saved"]
    /\ UNCHANGED <<phase, fname, uploaded_file, remote, deleteCalls, result>>
    /\ UNCHANGED <<reconVars, metricVars, normVars, webVars, textVars>>

\* extract_sof_data_from_file: uploaded_file = genai.upload_file(path=filepath)
\* sends what is at filepath now; when it raises, the except clause makes the
\* error dictionary.
UploadFile(p, outcome) ==
    /\ phase = "uploads"
    /\ pc[p] = "saved"
    /\ IF outcome = "ok" THEN
           /\ remote' = [remote EXCEPT ![p] = disk[fname[p]]]
           /\ uploaded_file' = [uploaded_file EXCEPT ![p] = TRUE]
           /\ pc' = [pc EXCEPT ![p] = "uploaded"]
           /\ UNCHANGED result
       ELSE
           /\ result' = [result EXCEPT ![p] = ErrorResult]
           /\ pc' = [pc EXCEPT ![p] = "finally"]
           /\ UNCHANGED <<remote, uploaded_file>>
    /\ UNCHANGED <<phase, fname, disk, deleteCalls>>
    /\ UNCHANGED <<reconVars, metricVars, normVars, webVars, textVars>>

\* extract_sof_data_from_file: model.generate_content([prompt, uploaded_file]),
\* json.loads(response.text) and the analysis; the answer is about the
\* uploaded file.  An exception of either call ends in the except clause.
GenerateContent(p, outcome) ==
    /\ phase = "uploads"
    /\ pc[p] = "uploaded"
    /\ result' = [result EXCEPT ![p] =
                     IF outcome = "json" THEN [kind |-> "data", doc |-> remote[p].doc]
                     ELSE ErrorResult]
    /\ pc' = [pc EXCEPT ![p] = "finally"]
    /\ UNCHANGED <<phase, fname, disk, uploaded_file, remote, deleteCalls>>
    /\ UNCHANGED <<reconVars, metricVars, normVars, webVars, textVars>>

\* Variant: the file is deleted only after a successful extraction.
FinallyAfterSuccessOnly(p, outcome) ==
    /\ phase = "uploads"
    /\ pc[p] = "finally"
    /\ IF uploaded_file[p] /\ result[p].kind = "data" THEN
           /\ deleteCalls' = [deleteCalls EXCEPT ![p] = @ + 1]
           /\ IF outcome = "ok" THEN
                  /\ remote' = [remote EXCEPT ![p] = NoFile]
                  /\ pc' = [pc EXCEPT ![p] = "returned"]
                  /\ UNCHANGED result
              ELSE
                  /\ result' = [result EXCEPT ![p] = [kind |-> "raised"]]
                  /\ pc' = [pc EXCEPT ![p] = "raised"]
                  /\ UNCHANGED remote
       ELSE
           /\ pc' = [pc EXCEPT ![p] = "returned"]
           /\ UNCHANGED <<remote, deleteCalls, result>>
    /\ UNCHANGED <<phase, fname, disk, uploaded_file>>
    /\ UNCHANGED <<reconVars, metricVars, normVars, webVars, textVars>>

\* extract_sof_data_from_file: the finally clause.  When genai.delete_file
\* raises, its exception replaces the pending return.
Finally(p, outcome) ==
    /\ phase = "uploads"
    /\ pc[p] = "finally"
    /\ IF uploaded_file[p] THEN
           /\ deleteCalls' = [deleteCalls EXCEPT ![p] = @ + 1]
           /\ IF outcome = "ok" THEN
                  /\ remote' = [remote EXCEPT ![p] = NoFile]
                  /\ pc' = [pc EXCEPT ![p] = "returned"]
                  /\ UNCHANGED result
              ELSE
                  /\ result' = [result EXCEPT ![p] = [kind |-> "raised"]]
                  /\ pc' = [pc EXCEPT ![p] = "raised"]
                  /\ UNCHANGED remote
       ELSE
           /\ pc' = [pc EXCEPT ![p] = "returned"]
           /\ UNCHANGED <<remote, deleteCalls, result>>
    /\ UNCHANGED <<phase, fname, disk, uploaded_file>>
    /\ UNCHANGED <<reconVars, metricVars, normVars, webVars, textVars>>

\* upload_and_process_sof, after the extraction returned: the result page is
\* rendered from extracted_data (and the data kept in the client's session).
RenderResult(p) ==
    /\ phase = "uploads"
    /\ pc[p] = "returned"
    /\ pc' = [pc EXCEPT ![p] = "rendered"]
    /\ UNCHANGED <<phase, fname, disk, uploaded_file, remote, deleteCalls, result>>
    /\ UNCHANGED <<reconVars, metricVars, normVars, webVars, textVars>>

NextUploads ==
    \/ \E p \in Procs : SaveFile(p)
    \/ \E p \in Procs, outcome \in UploadOutcomes : UploadFile(p, outcome)
    \/ \E p \in Procs, outcome \in GenerateOutcomes : GenerateContent(p, outcome)
    \/ \E p \in Procs, outcome \in DeleteOutcomes : Finally(p, outcome)
    \/ \E p \in Procs : RenderResult(p)

SpecUploads == InitUploads /\ [][NextUploads]_vars

\* extract_sof_data_from_file has returned for request p.
Returned(p) == pc[p] \in {"returned", "rendered"}
\* extract_sof_data_from_file is over for request p, by return or exception.
Exited(p) == Returned(p) \/ pc[p] = "raised"

\* C11: concurrent document-processing invocations have no cross-talk: under
\* every interleaving, two uploads with the same file name included, the data
\* an invocation obtains derives from its own document only.
C11_NoCrossTalk ==
    phase = "uploads" =>
        \A p \in Procs : result[p].kind = "data" => result[p].doc = p

\* C12: extract_sof_data_from_file cleans up the remote copy: when the upload
\* succeeded, genai.delete_file has been issued exactly once by the time the
\* function is over, and the file is gone from the service when the function
\* returns (with data after a valid answer, with an error after a failed model
\* call or an answer that is no JSON); when the upload failed, no delete is
\* issued and the error result is returned.  No delete is issued earlier.
C12_RemoteCleanup ==
    phase = "uploads" =>
        \A p \in Procs :
            /\ deleteCalls[p] <= 1
            /\ ~Exited(p) => deleteCalls[p] = 0
            /\ (Exited(p) /\ uploaded_file[p]) => deleteCalls[p] = 1
            /\ (Returned(p) /\ uploaded_file[p]) =>
                   /\ ~remote[p].exists
                   /\ result[p].kind \in {"data", "error"}
            /\ (Exited(p) /\ ~uploaded_file[p]) =>
                   /\ Returned(p)
                   /\ deleteCalls[p] = 0
                   /\ result[p] = ErrorResult
                   /\ ~remote[p].exists

\* C12's case: one request returned an error after a successful upload (the
\* model call raised or answered no JSON) with its file deleted once, and
\* another returned after its upload failed, with no delete issued.
C12_Witness ==
    /\ phase = "uploads"
    /\ \E p \in Procs :
           /\ pc[p] = "returned" /\ uploaded_file[p] /\ result[p] = ErrorResult
           /\ deleteCalls[p] = 1 /\ ~remote[p].exists
    /\ \E p \in Procs :
           /\ pc[p] = "returned" /\ ~uploaded_file[p] /\ result[p] = ErrorResult
           /\ deleteCalls[p] = 0

\* ----------------------- extract_events (app3.py) -------------------------
\* Lines of the input text, text.split('\n').
MaxLines == 4

\* Two of the event_patterns, in the order of the list.
EventPatterns == <<"pilot on board", "all fast">>

\* The date and the time a line can carry: "2019-10-11" and "05:00".
LineDate == [form |-> "ymd", y |-> 2019, a |-> 10, b |-> 11]
LineTime == [form |-> "colon", a |-> 5, b |-> 0, hrs |-> FALSE]

\* A line of the text: whether it has leading or trailing whitespace, the
\* event patterns it matches, and the date and time in it.  The line with no
\* pattern, date or time stands for the empty line ("" or whitespace only).
Line ==
    [ws : BOOLEAN,
     ev : {{}, {"all fast"}, {"pilot on board", "all fast"}},
     date : {NoToken, LineDate},
     time : {NoToken, LineTime}]

\* line.strip()
Strip(l) == [l EXCEPT !.ws = FALSE]
\* `not line` for a stripped line
Blank(l) == l.ev = {} /\ l.date = NoToken /\ l.time = NoToken

\* The first of the event_patterns the line matches.
FirstPattern(l) ==
    EventPatterns[CHOOSE k \in 1..Len(EventPatterns) :
                      /\ EventPatterns[k] \in l.ev
                      /\ \A j \in 1..(k - 1) : EventPatterns[j] \notin l.ev]

\* clean_event_name: the matched text, title-cased.
clean_event_name(pattern) ==
    IF pattern = "pilot on board" THEN "Pilot On Board" ELSE "All Fast"

\* The positions at which lines.index(x) can find x.
Occurrences(lines, x) == {j \in 1..Len(lines) : lines[j] = x}
SetMin(S) == CHOOSE j \in S : \A k \in S : j <= k

\* The context lines: range(max(0, line_idx-2), min(len(lines), line_idx+3)).
Context(lines, line_idx) ==
    {j \in 1..Len(lines) : line_idx - 2 <= j /\ j <= line_idx + 2}

\* re.search over ' '.join(context_lines): the first date / time in them.
SearchDate(lines, window) ==
    LET hits == {j \in window : lines[j].date # NoToken}
    IN  IF hits = {} THEN NoToken ELSE lines[SetMin(hits)].date
SearchTime(lines, window) ==
    LET hits == {j \in window : lines[j].time # NoToken}
    IN  IF hits = {} THEN NoToken ELSE lines[SetMin(hits)].time

\* The record of an event with the given date_match and time_match.
EventRecord(pattern, date_match, time_match) ==
    [Event |-> clean_event_name(pattern),
     Date |-> IF date_match # NoToken THEN normalize_date(date_match) ELSE NA,
     Time |-> IF time_match # NoToken THEN normalize_time(time_match) ELSE NA]

\* The body of the loop of extract_events for lines[i]: the records it
\* appends, or the ValueError of lines.index(line), which is called with the
\* stripped line on the list of unstripped lines.
LoopBody(lines, i) ==
    LET line == Strip(lines[i])
        lookAround == line.date = NoToken \/ line.time = NoToken
        found == Occurrences(lines, line)
    IN  IF Blank(line) \/ line.ev = {} THEN [raised |-> FALSE, appended |-> <<>>]
        ELSE IF lookAround /\ found = {} THEN [raised |-> TRUE]
        ELSE LET window == IF lookAround THEN Context(lines, SetMin(found)) ELSE {}
                 date_match == IF line.date # NoToken THEN line.date
                               ELSE SearchDate(lines, window)
                 time_match == IF line.time # NoToken THEN line.time
                               ELSE SearchTime(lines, window)
             IN  [raised |-> FALSE,
                  appended |-> <<EventRecord(FirstPattern(line), date_match, time_match)>>]

RECURSIVE EventsFrom(_, _, _)
EventsFrom(lines, i, acc) ==
    IF i > Len(lines) THEN [set |-> TRUE, raised |-> FALSE, records |-> acc]
    ELSE LET r == LoopBody(lines, i)
         IN  IF r.raised THEN [set |-> TRUE, raised |-> TRUE]
             ELSE EventsFrom(lines, i + 1, acc \o r.appended)

\* extract_events
extract_events(lines) == EventsFrom(lines, 1, <<>>)

InitEvents ==
    /\ phase = "text"
    /\ \E n \in 1..MaxLines : text \in [1..n -> Line]
    /\ eventList = [set |-> FALSE]
    /\ ReconIdle /\ MetricIdle /\ NormIdle /\ WebIdle /\ ProcIdle

\* A call of extract_events(text).
ExtractEvents ==
    /\ phase = "text"
    /\ eventList' = extract_events(text)
    /\ phase' = "events"
    /\ UNCHANGED <<text, reconVars, metricVars, normVars, webVars, procVars>>

NextEvents == ExtractEvents

SpecEvents == InitEvents /\ [][NextEvents]_vars

\* The record the claim expects for line i: the date and the time of the line
\* itself, else one within two lines of it, else 'N/A'.
ExpectedRecord(lines, i) ==
    LET line == lines[i]
        near == {j \in 1..Len(lines) : i - 2 <= j /\ j <= i + 2}
    IN  EventRecord(FirstPattern(line),
                    IF line.date # NoToken THEN line.date ELSE SearchDate(lines, near),
                    IF line.time # NoToken THEN line.time ELSE SearchTime(lines, near))

RECURSIVE ExpectedFrom(_, _)
ExpectedFrom(lines, i) ==
    IF i > Len(lines) THEN <<>>
    ELSE (IF lines[i].ev # {} THEN <<ExpectedRecord(lines, i)>> ELSE <<>>)
             \o ExpectedFrom(lines, i + 1)

\* C13: for every input text extract_events completes without raising and
\* returns, in line order, exactly one record per non-empty line that matches
\* an event pattern (however many it matches, with or without surrounding
\* whitespace, with or without a date or time), the date and time being 'N/A'
\* when found neither in the line nor within two lines of it.
C13_OneRecordPerMatchingLine ==
    phase = "events" =>
        /\ ~eventList.raised
        /\ eventList.records = ExpectedFrom(text, 1)

====
